---- MODULE Spec2Model ----
(***************************************************************************)
(* A model of three browser-side widgets of the site:                      *)
(*   - IndexedDBBackupRestore (src/src/js/SnowflakeRenderer.js:208-450)    *)
(*   - DotCanvas              (src/src/js/DotCanvas.js:1-178)              *)
(*   - RotatingDate           (src/src/js/DotCanvas.js:181-229)            *)
(* The browser (IndexedDB, timers, animation frames, FileReader) is the    *)
(* environment; its behaviour is modelled from the Web platform rules the  *)
(* code relies on.                                                         *)
(***************************************************************************)
EXTENDS Integers, Sequences, FiniteSets, TLC

VARIABLES
    \* ---- IndexedDB and the IndexedDBBackupRestore instance
    dbs,            \* the browser's databases: name -> database
    conns,          \* the open connections this instance obtained via _openDB
    nextConn,       \* id the next connection gets
    dbConnections,  \* this.dbConnections: name -> connection id (0: no entry)
    pc,             \* "idle", "backup" or "restore": the call in flight
    todo,           \* what the running call still has to process
    backupData,     \* backup()'s local backupData
    bkWait,         \* "ready", or "unsettled": the cursor promise nobody settles
    result,         \* how the last returned promise settled
    lastCall,       \* the last method called on the instance
    arg,            \* the jsonString of the last restore() call
    nCalls,         \* number of backup() and restore() calls made so far
    nCloses,        \* number of closeConnections() calls made so far
    \* ---- history of the calls (observers, not program state)
    atCall,         \* dbs, conns and dbConnections when restore() was called
    putLog,         \* the items restore() has put in the current call
    committed,      \* stores whose transaction completed in the current restore()
    lastBackup,     \* the last resolved backup: its JSON and the databases then
    roundTrip,      \* the current restore() replays lastBackup on unchanged databases
    \* ---- DotCanvas
    maxDots, dots, dotCount, lines, lineTimeout, timers, nextTimer,
    dcPc, randomIndex1, randomIndex2, canvasSize, frames, lineFires,
    \* ---- RotatingDate
    dateArray, intervalId, intervals, nextInterval, display, rdLast, rdCalls,
    rdTicks

dbVars == <<dbs, conns, nextConn, dbConnections, pc, todo, backupData, bkWait,
            result, lastCall, arg, nCalls, nCloses, atCall, putLog,
            committed, lastBackup, roundTrip>>
dcVars == <<maxDots, dots, dotCount, lines, lineTimeout, timers, nextTimer,
            dcPc, randomIndex1, randomIndex2, canvasSize, frames, lineFires>>
rdVars == <<dateArray, intervalId, intervals, nextInterval, display, rdLast, rdCalls,
            rdTicks>>
vars == <<dbVars, dcVars, rdVars>>

(***************************************************************************)
(* Bounds of the model.                                                    *)
(***************************************************************************)
MaxCalls == 2        \* calls of backup() and restore() in a run
MaxCloses == 1       \* calls of closeConnections() in a run
MaxFrames == 12      \* animation frames in a run
MaxLineFires == 1    \* lines added in a run
MaxMaxDots == 10     \* largest maxDots given to the DotCanvas constructor
MaxDateCalls == 4    \* startRotation/stopRotation calls in a run
MaxTicks == 4        \* interval callbacks in a run

DbNames == {"d1", "d2"}
StoreNames == {"s1", "s2"}
\* DOMStringList order of db.objectStoreNames (sorted)
StoreOrder == <<"s1", "s2">>

(***************************************************************************)
(* Values stored in items.  kind: "absent" (no such property), "null",     *)
(* "num", "str", "date", "blob", "file", or "marker": the object           *)
(* {_indexedDB_file_data: true, data, type, name} that stands for a file   *)
(* in the JSON.  For blob/file: s is the MIME type, bytes the contents.    *)
(* For marker: s is .type, bytes the base64 symbols of .data after the     *)
(* comma of the data URL (0..63, 64 for '=').                              *)
(***************************************************************************)
Val(k, n, s, b) == [kind |-> k, n |-> n, s |-> s, bytes |-> b]
Absent == Val("absent", 0, "", <<>>)
NullV == Val("null", 0, "", <<>>)
Num(n) == Val("num", n, "", <<>>)
Str(s) == Val("str", 0, s, <<>>)
DateV(t) == Val("date", t, "", <<>>)
Blob(mime, b) == Val("blob", 0, mime, b)
FileV(mime, b) == Val("file", 0, mime, b)
Marker(type, b64) == Val("marker", 0, type, b64)

\* An item: id is the key at keyPath 'id' (0: no id property, -1: an id that
\* is no valid key, such as null or true); the other two are its properties.
Item(id, ts, data) == [id |-> id, timestamp |-> ts, data |-> data]

(***************************************************************************)
(* Base64, as FileReader.readAsDataURL writes it and atob reads it.        *)
(***************************************************************************)
RECURSIVE B64Encode(_)
B64Encode(b) ==
    IF Len(b) = 0 THEN <<>>
    ELSE IF Len(b) = 1 THEN <<b[1] \div 4, (b[1] % 4) * 16, 64, 64>>
    ELSE IF Len(b) = 2 THEN
        <<b[1] \div 4, (b[1] % 4) * 16 + (b[2] \div 16), (b[2] % 16) * 4, 64>>
    ELSE <<b[1] \div 4, (b[1] % 4) * 16 + (b[2] \div 16),
           (b[2] % 16) * 4 + (b[3] \div 64), b[3] % 64>>
         \o B64Encode(SubSeq(b, 4, Len(b)))

\* atob's removal of one or two trailing '=' of a string of length 4k
StripPadding(p) ==
    IF Len(p) % 4 = 0 /\ Len(p) > 0 /\ p[Len(p)] = 64
    THEN IF p[Len(p) - 1] = 64 THEN SubSeq(p, 1, Len(p) - 2)
                               ELSE SubSeq(p, 1, Len(p) - 1)
    ELSE p

RECURSIVE B64Decode(_)
B64Decode(q) ==
    IF Len(q) < 2 THEN <<>>
    ELSE IF Len(q) = 2 THEN <<q[1] * 4 + (q[2] \div 16)>>
    ELSE IF Len(q) = 3 THEN
        <<q[1] * 4 + (q[2] \div 16), (q[2] % 16) * 16 + (q[3] \div 4)>>
    ELSE <<q[1] * 4 + (q[2] \div 16), (q[2] % 16) * 16 + (q[3] \div 4),
           (q[3] % 4) * 64 + q[4]>>
         \o B64Decode(SubSeq(q, 5, Len(q)))

\* atob: throws (ok = FALSE) on a symbol outside the alphabet or a length
\* of 4k+1 once the padding is removed.
AtoB(p) ==
    LET q == StripPadding(p) IN
    IF (\E i \in 1..Len(q) : q[i] = 64) \/ Len(q) % 4 = 1
    THEN [ok |-> FALSE, bytes |-> <<>>]
    ELSE [ok |-> TRUE, bytes |-> B64Decode(q)]

\* _fileToBase64: the data URL of the file; the model keeps what follows
\* its comma.
FileToBase64(file) == B64Encode(file.bytes)

\* _base64ToBlob: a Blob of the decoded bytes and the given type, or null.
Base64ToBlob(base64, mimeType) ==
    LET r == AtoB(base64) IN
    IF r.ok THEN Blob(mimeType, r.bytes) ELSE NullV

(***************************************************************************)
(* The conversions of backup() and restore() on one item.                  *)
(***************************************************************************)
IsFile(v) == v.kind \in {"blob", "file"}
HasFile(item) == IsFile(item.timestamp) \/ IsFile(item.data)

\* backup(), lines 318-333: a Blob/File property becomes its marker
BackupField(v) == IF IsFile(v) THEN Marker(v.s, FileToBase64(v)) ELSE v
BackupItem(item) ==
    [id |-> item.id, timestamp |-> BackupField(item.timestamp),
     data |-> BackupField(item.data)]

\* restore(), lines 395-407: a marker becomes a Blob again (null on failure)
RestoreField(v) == IF v.kind = "marker" THEN Base64ToBlob(v.bytes, v.s) ELSE v
RestoreItem(item) ==
    [id |-> item.id, timestamp |-> RestoreField(item.timestamp),
     data |-> RestoreField(item.data)]

(***************************************************************************)
(* JSON.  A JSON text is [valid, doc]; doc is the sequence of              *)
(* [name, stores], stores the sequence of [name, items], in key order.     *)
(* JSON.stringify writes a Date as its ISO string.                         *)
(***************************************************************************)
IsoOf(t) == IF t = 1 THEN "1970-01-01T00:00:00.001Z" ELSE "1970-01-01T00:00:00.002Z"
JsonField(v) == IF v.kind = "date" THEN Str(IsoOf(v.n)) ELSE v
JsonItem(item) ==
    [id |-> item.id, timestamp |-> JsonField(item.timestamp),
     data |-> JsonField(item.data)]
JsonStore(st) ==
    [name |-> st.name, items |-> [i \in 1..Len(st.items) |-> JsonItem(st.items[i])]]
JsonDb(e) ==
    [name |-> e.name, stores |-> [i \in 1..Len(e.stores) |-> JsonStore(e.stores[i])]]
JsonStringify(data) ==
    [valid |-> TRUE, doc |-> [i \in 1..Len(data) |-> JsonDb(data[i])]]
\* a parse that takes any string for JSON
JsonParseLenient(text) == [ok |-> TRUE, value |-> text.doc]
JsonParse(text) == [ok |-> text.valid, value |-> text.doc]
InvalidJson == [valid |-> FALSE, doc |-> <<>>]

(***************************************************************************)
(* IndexedDB: object stores with keyPath 'id', databases, open and put.    *)
(***************************************************************************)
NoStore == [exists |-> FALSE, autoInc |-> FALSE, gen |-> 1, items |-> {}]
NoDb == [exists |-> FALSE, version |-> 0, stores |-> [s \in StoreNames |-> NoStore]]

\* db.createObjectStore(storeName, {keyPath: 'id', autoIncrement: true})
CreatedStore == [exists |-> TRUE, autoInc |-> TRUE, gen |-> 1, items |-> {}]

\* indexedDB.open(dbName, version) with _openDB's onupgradeneeded handler;
\* version 0 stands for undefined.  A missing database is created (at
\* version 1 when none is given) and the handler creates the named stores;
\* an existing database of a higher version refuses the open (VersionError).
OpenDB(db, version, objectStoreNames) ==
    LET v == IF version = 0 THEN 1 ELSE version
        upgraded == [exists |-> TRUE, version |-> v,
                     stores |-> [s \in StoreNames |->
                        IF s \in objectStoreNames /\ ~db.stores[s].exists
                        THEN CreatedStore ELSE db.stores[s]]]
    IN  IF ~db.exists THEN [ok |-> TRUE, db |-> upgraded]
        ELSE IF version # 0 /\ version < db.version THEN [ok |-> FALSE, db |-> db]
        ELSE IF version > db.version THEN [ok |-> TRUE, db |-> upgraded]
        ELSE [ok |-> TRUE, db |-> db]

\* a put that leaves an item already stored under the key in place
PutItemKeepsOld(store, item) ==
    IF item.id = -1 \/ (item.id = 0 /\ ~store.autoInc)
    THEN [ok |-> FALSE, store |-> store, stored |-> item]
    ELSE LET key == IF item.id = 0 THEN store.gen ELSE item.id
             it == [item EXCEPT !.id = key]
         IN  [ok |-> TRUE,
              store |-> [store EXCEPT
                  !.items = IF \E x \in store.items : x.id = key
                            THEN store.items ELSE store.items \cup {it},
                  !.gen = IF store.autoInc /\ key >= store.gen THEN key + 1
                          ELSE store.gen],
              stored |-> it]

\* store.put(item) on a store with keyPath 'id': DataError (ok = FALSE) when
\* the item carries no usable key and the store generates none; otherwise the
\* item replaces the one stored under its key, and the key generator moves
\* past a numeric key.
PutItem(store, item) ==
    IF item.id = -1 \/ (item.id = 0 /\ ~store.autoInc)
    THEN [ok |-> FALSE, store |-> store, stored |-> item]
    ELSE LET key == IF item.id = 0 THEN store.gen ELSE item.id
             it == [item EXCEPT !.id = key]
         IN  [ok |-> TRUE,
              store |-> [store EXCEPT
                  !.items = {x \in store.items : x.id # key} \cup {it},
                  !.gen = IF store.autoInc /\ key >= store.gen THEN key + 1
                          ELSE store.gen],
              stored |-> it]

\* The items of a store in cursor (key) order
RECURSIVE SortedItems(_)
SortedItems(items) ==
    IF items = {} THEN <<>>
    ELSE LET m == CHOOSE x \in items : \A y \in items : x.id <= y.id
         IN  <<m>> \o SortedItems(items \ {m})

(***************************************************************************)
(* backup(): one object store read through a cursor (lines 307-344).       *)
(* The cursor callback is async: for an item holding a Blob/File it awaits *)
(* the FileReader, the transaction goes inactive meanwhile, and            *)
(* cursor.continue() then throws inside the async callback: neither        *)
(* resolve nor reject of the awaited promise is ever called.               *)
(* Returns the items pushed to backupData and whether the promise is left  *)
(* unsettled.  (A FileReader error would put null in place of the marker;  *)
(* the callback has awaited all the same and the promise is left unsettled *)
(* just so; the model reads every file successfully.)                      *)
(***************************************************************************)
RECURSIVE ReadCursor(_, _)
ReadCursor(sorted, k) ==
    IF k > Len(sorted) THEN [items |-> <<>>, unsettled |-> FALSE]
    ELSE IF HasFile(sorted[k])
         THEN [items |-> <<BackupItem(sorted[k])>>, unsettled |-> TRUE]
         ELSE LET rest == ReadCursor(sorted, k + 1)
              IN  [items |-> <<sorted[k]>> \o rest.items, unsettled |-> rest.unsettled]

\* backup(), lines 304-345: the object stores of one database in order
RECURSIVE BackupStores(_, _)
BackupStores(db, k) ==
    IF k > Len(StoreOrder) THEN [stores |-> <<>>, unsettled |-> FALSE]
    ELSE IF ~db.stores[StoreOrder[k]].exists THEN BackupStores(db, k + 1)
    ELSE LET r == ReadCursor(SortedItems(db.stores[StoreOrder[k]].items), 1)
             here == [name |-> StoreOrder[k], items |-> r.items]
         IN  IF r.unsettled THEN [stores |-> <<here>>, unsettled |-> TRUE]
             ELSE LET rest == BackupStores(db, k + 1)
                  IN  [stores |-> <<here>> \o rest.stores, unsettled |-> rest.unsettled]

(***************************************************************************)
(* restore(): the items of one object store (lines 389-419) and the        *)
(* object stores of one database (lines 377-428).                          *)
(***************************************************************************)
\* an all-or-nothing restore: a failed put undoes the whole call
OnPutErrorRollsBack(cur, before) == before

\* lines 415-418 and 429-432: a failed put throws out of restore(); the catch
\* blocks only rethrow, nothing is aborted or undone, so the databases stay
\* as they are at the failure (before: as they were when restore was called).
OnPutError(cur, before) == cur

RECURSIVE PutAll(_, _, _)
PutAll(store, items, k) ==
    IF k > Len(items) THEN [ok |-> TRUE, store |-> store, puts |-> {}]
    ELSE LET r == PutItem(store, RestoreItem(items[k]))
         IN  IF ~r.ok THEN [ok |-> FALSE, store |-> store, puts |-> {}]
             ELSE LET rest == PutAll(r.store, items, k + 1)
                  IN  [ok |-> rest.ok, store |-> rest.store,
                       puts |-> {r.stored} \cup rest.puts]

RECURSIVE RestoreStores(_, _, _)
RestoreStores(db, stores, k) ==
    IF k > Len(stores) THEN [ok |-> TRUE, db |-> db, puts |-> {}, done |-> {}]
    ELSE LET name == stores[k].name
             items == stores[k].items
         IN  IF Len(items) = 0 \/ ~db.stores[name].exists
             THEN RestoreStores(db, stores, k + 1)
             ELSE LET r == PutAll(db.stores[name], items, 1)
                      db2 == [db EXCEPT !.stores[name] = r.store]
                      here == {[store |-> name, item |-> x] : x \in r.puts}
                  IN  IF ~r.ok
                      THEN [ok |-> FALSE, db |-> db2, puts |-> here, done |-> {}]
                      ELSE LET rest == RestoreStores(db2, stores, k + 1)
                           IN  [ok |-> rest.ok, db |-> rest.db,
                                puts |-> here \cup rest.puts,
                                done |-> {name} \cup rest.done]

(***************************************************************************)
(* The inputs of the model: the databases the page may hold before the     *)
(* instance is used, and the JSON texts given to restore().                *)
(***************************************************************************)
Plain1 == Item(1, Absent, Str("a"))
Plain2 == Item(2, Absent, Num(7))
Stamped1 == Item(1, DateV(1), Str("a"))
StampedStr1 == Item(1, Str(IsoOf(1)), Str("a"))
Image2 == Item(2, Absent, FileV("image/png", <<137, 80>>))
NoId == Item(0, Absent, Str("b"))
BadKey == Item(-1, Absent, Str("c"))
Marked2 == Item(2, Absent, Marker("image/png", B64Encode(<<137, 80>>)))
BadMarked2 == Item(2, Absent, Marker("image/png", <<1>>))
Other1 == Item(1, Absent, Str("z"))

\* a store as the page itself creates it (createObjectStore('images', {keyPath: 'id'}))
AppStore(items) == [exists |-> TRUE, autoInc |-> FALSE, gen |-> 1, items |-> items]
DbWith(v, s1, s2) ==
    [exists |-> TRUE, version |-> v,
     stores |-> [s \in StoreNames |-> IF s = "s1" THEN s1 ELSE s2]]

PriorDbs ==
    { NoDb,
      DbWith(1, NoStore, NoStore),
      DbWith(1, AppStore({}), NoStore),
      DbWith(1, AppStore({Plain1}), NoStore),
      DbWith(1, AppStore({Stamped1}), NoStore),
      DbWith(1, AppStore({Plain1, Image2}), NoStore),
      DbWith(2, AppStore({Plain1}), NoStore) }

StoreEntry(name, items) == [name |-> name, items |-> items]
DbEntry(name, stores) == [name |-> name, stores |-> stores]

Docs ==
    { <<>>,
      <<DbEntry("d1", <<StoreEntry("s1", <<Plain1>>)>>)>>,
      <<DbEntry("d1", <<StoreEntry("s1", <<StampedStr1>>),
                        StoreEntry("s2", <<Plain2>>)>>)>>,
      <<DbEntry("d1", <<StoreEntry("s1", <<>>),
                        StoreEntry("s2", <<NoId, NoId>>)>>)>>,
      <<DbEntry("d1", <<StoreEntry("s1", <<Plain1, Marked2>>)>>),
        DbEntry("d2", <<StoreEntry("s1", <<BadKey>>)>>)>>,
      <<DbEntry("d1", <<StoreEntry("s1", <<Plain2>>),
                        StoreEntry("s2", <<NoId, BadKey>>)>>)>>,
      <<DbEntry("d2", <<StoreEntry("s1", <<Plain1, Other1>>)>>)>>,
      <<DbEntry("d2", <<StoreEntry("s2", <<BadMarked2>>)>>)>> }

JsonInputs == {InvalidJson} \cup {[valid |-> TRUE, doc |-> d] : d \in Docs}

\* this.dbNames, as the page constructs the instance
dbNames == <<"d1", "d2">>

NoResult == [op |-> "none", status |-> "none", msg |-> "", json |-> InvalidJson]
Settled(op, status, msg, json) ==
    [op |-> op, status |-> status, msg |-> msg, json |-> json]

(***************************************************************************)
(* _openDB's onsuccess (lines 243-247): the connection is stored under the *)
(* database name, replacing whatever entry the name had.                   *)
(***************************************************************************)
Register(reg, name, id) == [reg EXCEPT ![name] = id]

(***************************************************************************)
(* backup()                                                                *)
(***************************************************************************)
BackupCall ==
    /\ pc = "idle" /\ nCalls < MaxCalls
    /\ pc' = "backup"
    /\ todo' = dbNames
    /\ backupData' = <<>>
    /\ bkWait' = "ready"
    /\ result' = NoResult
    /\ lastCall' = "backup"
    /\ nCalls' = nCalls + 1
    /\ UNCHANGED <<nCloses, dbs, conns, nextConn, dbConnections, arg, atCall, putLog,
                   committed, lastBackup, roundTrip>>
    /\ UNCHANGED <<dcVars, rdVars>>

\* one round of the loop over this.dbNames (lines 299-350)
BackupDb ==
    /\ pc = "backup" /\ bkWait = "ready" /\ todo # <<>>
    /\ LET dbName == Head(todo)
           o == OpenDB(dbs[dbName], 0, {})
           r == BackupStores(o.db, 1)
       IN  /\ dbs' = [dbs EXCEPT ![dbName] = o.db]
           /\ conns' = conns \cup {[id |-> nextConn, name |-> dbName]}
           /\ nextConn' = nextConn + 1
           /\ dbConnections' = Register(dbConnections, dbName, nextConn)
           /\ backupData' = Append(backupData, DbEntry(dbName, r.stores))
           /\ bkWait' = IF r.unsettled THEN "unsettled" ELSE "ready"
           /\ todo' = IF r.unsettled THEN todo ELSE Tail(todo)
    /\ UNCHANGED <<nCloses, pc, result, lastCall, arg, nCalls, atCall, putLog, committed,
                   lastBackup, roundTrip>>
    /\ UNCHANGED <<dcVars, rdVars>>

\* line 351
BackupReturn ==
    /\ pc = "backup" /\ bkWait = "ready" /\ todo = <<>>
    /\ pc' = "idle"
    /\ result' = Settled("backup", "resolved", "", JsonStringify(backupData))
    /\ lastBackup' = [has |-> TRUE, json |-> JsonStringify(backupData), dbs |-> dbs]
    /\ UNCHANGED <<nCloses, dbs, conns, nextConn, dbConnections, todo, backupData, bkWait,
                   lastCall, arg, nCalls, atCall, putLog, committed, roundTrip>>
    /\ UNCHANGED <<dcVars, rdVars>>

(***************************************************************************)
(* restore(jsonString)                                                     *)
(***************************************************************************)
\* lines 362-367, and the start of the loop over the parsed data
RestoreCall(jsonString) ==
    /\ pc = "idle" /\ nCalls < MaxCalls
    /\ LET parsedData == JsonParse(jsonString)
       IN  IF ~parsedData.ok
           THEN /\ pc' = "idle"
                /\ todo' = <<>>
                /\ result' = Settled("restore", "rejected",
                      "Invalid JSON string provided for restoration.", InvalidJson)
           ELSE /\ pc' = "restore"
                /\ todo' = parsedData.value
                /\ result' = NoResult
    /\ lastCall' = "restore"
    /\ arg' = jsonString
    /\ nCalls' = nCalls + 1
    /\ atCall' = [dbs |-> dbs, conns |-> conns, dbConnections |-> dbConnections]
    /\ putLog' = {}
    /\ committed' = {}
    /\ roundTrip' = (lastBackup.has /\ jsonString = lastBackup.json
                     /\ dbs = lastBackup.dbs)
    /\ UNCHANGED <<nCloses, dbs, conns, nextConn, dbConnections, backupData, bkWait,
                   lastBackup>>
    /\ UNCHANGED <<dcVars, rdVars>>

\* one round of the loop over the databases of the parsed data (lines 369-434)
RestoreDb ==
    /\ pc = "restore" /\ todo # <<>>
    /\ LET dbName == Head(todo).name
           dbStoresData == Head(todo).stores
           objectStoreNames == {dbStoresData[i].name : i \in 1..Len(dbStoresData)}
           o == OpenDB(dbs[dbName], 1, objectStoreNames)
           r == RestoreStores(o.db, dbStoresData, 1)
       IN  IF ~o.ok
           THEN /\ pc' = "idle"
                /\ todo' = <<>>
                /\ result' = Settled("restore", "rejected",
                                     "Restoration failed: open", InvalidJson)
                /\ UNCHANGED <<dbs, conns, nextConn, dbConnections, putLog, committed>>
           ELSE /\ conns' = conns \cup {[id |-> nextConn, name |-> dbName]}
                /\ nextConn' = nextConn + 1
                /\ dbConnections' = Register(dbConnections, dbName, nextConn)
                /\ putLog' = putLog \cup
                      {[db |-> dbName, store |-> x.store, item |-> x.item] : x \in r.puts}
                /\ committed' = committed \cup
                      {[db |-> dbName, store |-> s, items |-> r.db.stores[s].items]
                         : s \in r.done}
                /\ IF r.ok
                   THEN /\ dbs' = [dbs EXCEPT ![dbName] = r.db]
                        /\ todo' = Tail(todo)
                        /\ UNCHANGED <<pc, result>>
                   ELSE /\ dbs' = OnPutError([dbs EXCEPT ![dbName] = r.db], atCall.dbs)
                        /\ pc' = "idle"
                        /\ todo' = <<>>
                        /\ result' = Settled("restore", "rejected",
                                             "Restoration failed: put", InvalidJson)
    /\ UNCHANGED <<nCloses, backupData, bkWait, lastCall, arg, nCalls, atCall, lastBackup,
                   roundTrip>>
    /\ UNCHANGED <<dcVars, rdVars>>

\* the loop is over: the promise resolves (line 435)
RestoreReturn ==
    /\ pc = "restore" /\ todo = <<>>
    /\ pc' = "idle"
    /\ result' = Settled("restore", "resolved", "", InvalidJson)
    /\ UNCHANGED <<nCloses, dbs, conns, nextConn, dbConnections, todo, backupData, bkWait,
                   lastCall, arg, nCalls, atCall, putLog, committed, lastBackup,
                   roundTrip>>
    /\ UNCHANGED <<dcVars, rdVars>>

(***************************************************************************)
(* closeConnections() (lines 441-449): closes and deletes every entry of   *)
(* dbConnections.  The page calls it after each call and on beforeunload,  *)
(* so also while a backup is left waiting.                                 *)
(***************************************************************************)
ClosedBy(reg, open) == {c \in open : \A n \in DbNames : reg[n] # c.id}

CloseConnections ==
    /\ pc = "idle" \/ (pc = "backup" /\ bkWait = "unsettled")
    /\ nCloses < MaxCloses
    /\ conns' = ClosedBy(dbConnections, conns)
    /\ dbConnections' = [n \in DbNames |-> 0]
    /\ lastCall' = "close"
    /\ nCloses' = nCloses + 1
    /\ UNCHANGED <<dbs, nextConn, pc, todo, backupData, bkWait, result, arg, nCalls,
                   atCall, putLog, committed, lastBackup, roundTrip>>
    /\ UNCHANGED <<dcVars, rdVars>>

DbStart(prior) ==
    /\ dbs = prior
    /\ conns = {}
    /\ nextConn = 1
    /\ dbConnections = [n \in DbNames |-> 0]
    /\ pc = "idle"
    /\ todo = <<>>
    /\ backupData = <<>>
    /\ bkWait = "ready"
    /\ result = NoResult
    /\ lastCall = "none"
    /\ arg = InvalidJson
    /\ nCalls = 0
    /\ nCloses = 0
    /\ atCall = [dbs |-> dbs, conns |-> {}, dbConnections |-> [n \in DbNames |-> 0]]
    /\ putLog = {}
    /\ committed = {}
    /\ lastBackup = [has |-> FALSE, json |-> InvalidJson, dbs |-> dbs]
    /\ roundTrip = FALSE

(***************************************************************************)
(* DotCanvas.  A dot is modelled by its creation number: its coordinates,  *)
(* radius and colour are drawn but never read by the control flow.         *)
(***************************************************************************)
LineResetAt == 20
RestartAtDotCount == 10
WindowSizes == {1, 2}

\* Math.floor(Math.random() * n): 0 when n = 0
RandomIndexes(n) == IF n = 0 THEN {0} ELSE 0..(n - 1)

\* scheduleNextLine (lines 145-148): a new timer, remembered in lineTimeout
ScheduleNextLine(st) ==
    [st EXCEPT !.timers = st.timers \cup {st.nextTimer},
               !.lineTimeout = st.nextTimer,
               !.nextTimer = st.nextTimer + 1]

\* addRandomDot (lines 97-115) on the record of the fields it touches
AddRandomDot(st) ==
    LET pushed == IF st.dotCount <= st.maxDots
                  THEN [st EXCEPT !.dots = Append(st.dots, st.dotCount + 1),
                                  !.dotCount = st.dotCount + 1]
                  ELSE st
    IN  IF pushed.dotCount = RestartAtDotCount
        THEN ScheduleNextLine([pushed EXCEPT !.timers = pushed.timers \ {pushed.lineTimeout}])
        ELSE pushed

DotState ==
    [maxDots |-> maxDots, dots |-> dots, dotCount |-> dotCount, timers |-> timers,
     lineTimeout |-> lineTimeout, nextTimer |-> nextTimer]

SetDotState(st) ==
    /\ dots' = st.dots
    /\ dotCount' = st.dotCount
    /\ timers' = st.timers
    /\ lineTimeout' = st.lineTimeout
    /\ nextTimer' = st.nextTimer

\* constructor (lines 7-22)
DotCanvasNew(m) ==
    /\ dcPc = "new"
    /\ dcPc' = "constructed"
    /\ maxDots' = m
    /\ dots' = <<>> /\ lines' = <<>> /\ dotCount' = 0 /\ lineTimeout' = 0
    /\ UNCHANGED <<timers, nextTimer, randomIndex1, randomIndex2, canvasSize,
                   frames, lineFires>>
    /\ UNCHANGED <<dbVars, rdVars>>

\* init (lines 27-32): size the canvas, start the line timer, run the first frame
DotCanvasInit(w) ==
    /\ dcPc = "constructed"
    /\ dcPc' = "running"
    /\ canvasSize' = w
    /\ SetDotState(AddRandomDot(ScheduleNextLine(DotState)))
    /\ frames' = 1
    /\ UNCHANGED <<maxDots, lines, randomIndex1, randomIndex2, lineFires>>
    /\ UNCHANGED <<dbVars, rdVars>>

\* the resize listener: setCanvasSize (lines 38-43)
SetCanvasSize(w) ==
    /\ dcPc = "running"
    /\ w # canvasSize
    /\ canvasSize' = w
    /\ UNCHANGED <<maxDots, dots, dotCount, lines, lineTimeout, timers, nextTimer,
                   dcPc, randomIndex1, randomIndex2, frames, lineFires>>
    /\ UNCHANGED <<dbVars, rdVars>>

\* an animation frame: animate (lines 171-177)
Animate ==
    /\ dcPc = "running" /\ frames < MaxFrames
    /\ SetDotState(AddRandomDot(DotState))
    /\ frames' = frames + 1
    /\ UNCHANGED <<maxDots, lines, dcPc, randomIndex1, randomIndex2, canvasSize,
                   lineFires>>
    /\ UNCHANGED <<dbVars, rdVars>>

\* the line timer fires: addRandomLine up to its while loop (lines 121-126)
AddRandomLine(t) ==
    /\ dcPc = "running" /\ lineFires < MaxLineFires
    /\ t \in timers
    /\ timers' = timers \ {t}
    /\ lines' = IF Len(lines) > LineResetAt THEN <<>> ELSE lines
    /\ randomIndex1' \in RandomIndexes(Len(dots))
    /\ randomIndex2' \in RandomIndexes(Len(dots))
    /\ dcPc' = "inLine"
    /\ UNCHANGED <<maxDots, dots, dotCount, lineTimeout, nextTimer, canvasSize,
                   frames, lineFires>>
    /\ UNCHANGED <<dbVars, rdVars>>

\* one round of the while loop (lines 129-131)
LineRetry ==
    /\ dcPc = "inLine" /\ randomIndex1 = randomIndex2
    /\ randomIndex2' \in RandomIndexes(Len(dots))
    /\ UNCHANGED <<maxDots, dots, dotCount, lines, lineTimeout, timers, nextTimer,
                   dcPc, randomIndex1, canvasSize, frames, lineFires>>
    /\ UNCHANGED <<dbVars, rdVars>>

\* the loop is left: the line is pushed and the next timer set (lines 133-139)
LineFinish ==
    /\ dcPc = "inLine" /\ randomIndex1 # randomIndex2
    /\ lines' = Append(lines, [dot1 |-> dots[randomIndex1 + 1],
                               dot2 |-> dots[randomIndex2 + 1]])
    /\ SetDotState(ScheduleNextLine(DotState))
    /\ dcPc' = "running"
    /\ lineFires' = lineFires + 1
    /\ UNCHANGED <<maxDots, randomIndex1, randomIndex2, canvasSize, frames>>
    /\ UNCHANGED <<dbVars, rdVars>>

NextDots ==
    \/ \E m \in 0..MaxMaxDots : DotCanvasNew(m)
    \/ \E w \in WindowSizes : DotCanvasInit(w)
    \/ \E w \in WindowSizes : SetCanvasSize(w)
    \/ Animate
    \/ \E t \in timers : AddRandomLine(t)
    \/ LineRetry
    \/ LineFinish

(***************************************************************************)
(* RotatingDate                                                            *)
(***************************************************************************)
\* the digits of day, month and year (lines 184-192) of the dates tried
Dates == { <<0, 4, 1, 1, 2, 0, 2, 6>>, <<3, 1, 1, 2, 1, 9, 9, 9>> }

\* getCurrentDateString: dateArray.join(' '); -1 stands for the space
RECURSIVE Join(_)
Join(a) ==
    IF Len(a) = 0 THEN <<>>
    ELSE IF Len(a) = 1 THEN a
    ELSE <<a[1], -1>> \o Join(Tail(a))

\* rotateNumbers (lines 213-216)
RotateNumbers(a) == Append(Tail(a), Head(a))

\* constructor (lines 182-196)
RotatingDateNew(d) ==
    /\ rdLast = "none"
    /\ rdLast' = "new"
    /\ dateArray' = d
    /\ intervalId' = 0
    /\ UNCHANGED <<intervals, nextInterval, display, rdCalls, rdTicks>>
    /\ UNCHANGED <<dbVars, dcVars>>

\* startRotation (lines 199-205)
StartRotation ==
    /\ rdLast # "none" /\ rdCalls < MaxDateCalls
    /\ display' = Join(dateArray)
    /\ intervalId' = nextInterval
    /\ intervals' = intervals \cup {nextInterval}
    /\ nextInterval' = nextInterval + 1
    /\ rdLast' = "start"
    /\ rdCalls' = rdCalls + 1
    /\ UNCHANGED <<dateArray, rdTicks>>
    /\ UNCHANGED <<dbVars, dcVars>>

\* stopRotation (lines 208-210): clearInterval(this.intervalId)
StopRotation ==
    /\ rdLast # "none" /\ rdCalls < MaxDateCalls
    /\ intervals' = intervals \ {intervalId}
    /\ rdLast' = "stop"
    /\ rdCalls' = rdCalls + 1
    /\ UNCHANGED <<dateArray, intervalId, nextInterval, display, rdTicks>>
    /\ UNCHANGED <<dbVars, dcVars>>

\* the callback of an interval that is still set (lines 201-204)
IntervalTick(i) ==
    /\ i \in intervals /\ rdTicks < MaxTicks
    /\ dateArray' = RotateNumbers(dateArray)
    /\ display' = Join(RotateNumbers(dateArray))
    /\ rdTicks' = rdTicks + 1
    /\ UNCHANGED <<intervalId, intervals, nextInterval, rdLast, rdCalls>>
    /\ UNCHANGED <<dbVars, dcVars>>

NextDate ==
    \/ \E d \in Dates : RotatingDateNew(d)
    \/ StartRotation
    \/ StopRotation
    \/ \E i \in intervals : IntervalTick(i)

InitDots ==
    /\ maxDots = 0 /\ dots = <<>> /\ dotCount = 0 /\ lines = <<>>
    /\ lineTimeout = 0 /\ timers = {} /\ nextTimer = 1 /\ dcPc = "new"
    /\ randomIndex1 = 0 /\ randomIndex2 = 0 /\ canvasSize = 0 /\ frames = 0
    /\ lineFires = 0

InitDate ==
    /\ dateArray = <<>> /\ intervalId = 0 /\ intervals = {} /\ nextInterval = 1
    /\ display = <<>> /\ rdLast = "none" /\ rdCalls = 0 /\ rdTicks = 0

\* the page before any widget is used: no database yet
NoDatabases == [n \in DbNames |-> NoDb]
Init == DbStart(NoDatabases) /\ InitDots /\ InitDate
\* the backup page: databases as earlier visits may have left them
InitDB == (\E prior \in [DbNames -> PriorDbs] : DbStart(prior)) /\ InitDots /\ InitDate

NextDB ==
    \/ BackupCall
    \/ BackupDb
    \/ BackupReturn
    \/ \E j \in JsonInputs \cup (IF lastBackup.has THEN {lastBackup.json} ELSE {}) :
          RestoreCall(j)
    \/ RestoreDb
    \/ RestoreReturn
    \/ CloseConnections

\* each widget runs on its own page state; a specification per widget
SpecDB == InitDB /\ [][NextDB]_vars
SpecDots == Init /\ [][NextDots]_vars
SpecDate == Init /\ [][NextDate]_vars

\* backup() runs on as long as a step of it can be taken
FairSpecDB == SpecDB /\ WF_vars(BackupDb) /\ WF_vars(BackupReturn)
\* Math.random() does not return the same index for ever
FairSpecDots ==
    SpecDots /\ WF_vars(LineFinish) /\ WF_vars(LineRetry /\ randomIndex2' # randomIndex1)

(***************************************************************************)
(* The claims.                                                             *)
(***************************************************************************)
RestoreResolved == pc = "idle" /\ result.op = "restore" /\ result.status = "resolved"

\* C1: restore() never puts an item that has a 'timestamp' property into its
\* object store.
C1_SkipsTimestamped == \A p \in putLog : p.item.timestamp.kind = "absent"

\* C2: the promise returned by backup() eventually settles, whatever the
\* databases hold: a backup in flight leads to a settled backup.
C2_BackupSettles == (pc = "backup") ~> (pc = "idle" /\ result.op = "backup")

\* what a File/Blob property is allowed to come back as: a Blob of the same
\* bytes and MIME type
AsBlob(v) == IF v.kind = "file" THEN Blob(v.s, v.bytes) ELSE v
ItemAsBlob(x) ==
    [id |-> x.id, timestamp |-> AsBlob(x.timestamp), data |-> AsBlob(x.data)]

\* C3: round trip: once restore() of the output of backup() into the same,
\* unchanged databases has resolved, every object store holds exactly the
\* items it held at backup time (File/Blob properties as Blobs of the same
\* bytes and type, every other property with the same value).
C3_RoundTrip ==
    (RestoreResolved /\ roundTrip) =>
        \A n \in DbNames : \A s \in StoreNames :
            dbs[n].stores[s].items =
                {ItemAsBlob(x) : x \in lastBackup.dbs[n].stores[s].items}

\* the item as restore() stores it is in the store (under a generated key
\* when it brought none)
Present(store, item) ==
    /\ store.exists
    /\ IF item.id = 0
       THEN \E x \in store.items : [x EXCEPT !.id = 0] = item
       ELSE item \in store.items

Superseded(items, k) ==
    items[k].id # 0 /\ \E l \in (k + 1)..Len(items) : items[l].id = items[k].id

C5_AllClosed ==
    (lastCall = "close") =>
        (conns = {} /\ \A n \in DbNames : dbConnections[n] = 0)

\* C6: restore() of a string that is no JSON rejects with 'Invalid JSON
\* string provided for restoration.' and leaves the databases, the open
\* connections and dbConnections as they were.
C6_InvalidJsonRejected ==
    (lastCall = "restore" /\ ~arg.valid) =>
        /\ pc = "idle"
        /\ result.op = "restore" /\ result.status = "rejected"
        /\ result.msg = "Invalid JSON string provided for restoration."
        /\ dbs = atCall.dbs
        /\ conns = atCall.conns
        /\ dbConnections = atCall.dbConnections

\* an invalid string was given while databases and connections exist
C6_Witness ==
    /\ lastCall = "restore" /\ ~arg.valid /\ result.status = "rejected"
    /\ conns # {}
    /\ \E n \in DbNames : dbs[n].exists

\* C7: in every reachable state dots holds at most maxDots dots.
C7_DotsBounded == Len(dots) <= maxDots

\* C8: a call of addRandomLine terminates (with the line appended and the
\* next timer set, which is how it returns to the running state).
C8_LineTerminates == (dcPc = "inLine") ~> (dcPc = "running")

\* C9: after stopRotation() has returned and until the next call, no timer
\* rotates dateArray or updates the display.
C9_StopStops ==
    [][(rdLast = "stop" /\ rdLast' = "stop") =>
          (dateArray' = dateArray /\ display' = display)]_vars

PutRejected ==
    pc = "idle" /\ result.op = "restore" /\ result.msg = "Restoration failed: put"

\* C10: when restore() rejects because a put failed, the object stores whose
\* transaction completed earlier in the call still hold what they held when
\* it completed: nothing is rolled back.
C10_NoRollback ==
    PutRejected =>
        \A c \in committed : dbs[c.db].stores[c.store].items = c.items

\* a rejected restore that had committed new items to an earlier store
C10_Witness ==
    /\ PutRejected
    /\ \E c \in committed : c.items # atCall.dbs[c.db].stores[c.store].items

====
